---- MODULE Spec2Model ----
(***************************************************************************)
(* check_models.py: one HTTP GET of the model-listing endpoint, the body   *)
(* decoded and parsed as JSON, the "name" of every record of "models"      *)
(* printed in order, the whole inside "try: ... except Exception as e:     *)
(* print(e)".                                                              *)
(*                                                                         *)
(* One run of the script is one behaviour.  The server's answer (body) is  *)
(* the input, fixed in Init; whether the network call fails, answers or    *)
(* blocks is decided when the call is made.  The device behind stdout      *)
(* (it takes what is written, or it is full) and stdout's buffering are    *)
(* inputs too.  Every print writes its text and then a line terminator to  *)
(* sys.stdout; block-buffered, sys.stdout keeps what is written in the     *)
(* text layer (pending) until a chunk is full, hands it to the binary      *)
(* layer (bbuf), and that writes to the device.  stdout (out) is the       *)
(* sequence of lines that reached the device, and each line records which  *)
(* statement wrote it.                                                     *)
(***************************************************************************)
EXTENDS Integers, Sequences, FiniteSets, TLC

VARIABLES
    body,        \* what the server answers, if it answers: the response bytes
    device,      \* the device behind stdout: "ok", or "full" (writes fail)
    buffered,    \* whether stdout is block-buffered (a file or a pipe)
    pc,          \* the statement the run is at
    url,         \* line 3: url
    requests,    \* number of urlopen calls issued so far
    netOutcome,  \* "pending", "ok" (bytes read) or "fail" (urlopen or read raised)
    resp,        \* line 4: resp, the decoded text
    data,        \* line 5: data, the parsed document
    iter,        \* line 6: the sequence the for statement iterates
    idx,         \* line 6: how many elements the for statement has taken
    m,           \* line 6: m, the current element
    exc,         \* the exception raised, if any (e of line 8 once caught)
    pending,     \* sys.stdout, text layer: the writes not yet handed down
    bbuf,        \* sys.stdout, binary layer: the writes held in its buffer
    out,         \* stdout: the lines that reached the device
    printed7,    \* number of print calls made at line 7
    printed9,    \* number of print calls made at line 9
    exitCode     \* the process's exit status once it has ended (-1: running)

vars == <<body, device, buffered, pc, url, requests, netOutcome, resp, data,
          iter, idx, m, exc, pending, bbuf, out, printed7, printed9, exitCode>>

----------------------------------------------------------------------------
(* Bounds of the model. *)

\* longest "models" sequence a response carries
MaxModels == 3

----------------------------------------------------------------------------
(* JSON values as json.loads builds them.  An object keeps its keys in     *)
(* insertion order, as a Python dict does.                                 *)

JNull == [t |-> "null"]
JNum(n) == [t |-> "num", n |-> n]
JStr(s) == [t |-> "str", s |-> s]
JArr(items) == [t |-> "arr", items |-> items]
JObj(keys, val) == [t |-> "obj", keys |-> keys, val |-> val]

\* a variable not assigned yet
Unset == [t |-> "unset"]

\* the text of a string holding the lone surrogate U+D800 (JSON "\ud800")
Surrogate == "\\ud800"

\* the text of a string holding a line break (JSON "l1\nl2")
TwoLines == "l1\nl2"

\* the string of 4093 letters x, and the string of 9000
X4093 == "x*4093"
X9000 == "x*9000"

\* the line terminator print writes after its text
Newline == "\n"

\* the answer of a server that sends no HTTP status line
Garbage == "garbage\r\n"

\* len(text.encode()): the bytes a text takes on stdout (the texts of the
\* model are ASCII, one byte a character)
Size(text) ==
    CASE text = X4093 -> 4093
      [] text = X9000 -> 9000
      [] OTHER -> Len(text)

\* text.split("\n"): the lines a text occupies once written, for the texts
\* of the model (two of them hold a line break)
Lines(text) ==
    CASE text = TwoLines -> <<"l1", "l2">>
      [] text = Garbage -> <<"garbage\r", "">>
      [] OTHER -> <<text>>

\* the characters of the strings of the model, for iteration over a str
Chars(s) ==
    CASE s = "" -> <<>>
      [] s = "s" -> <<"s">>
      [] s = "ab" -> <<"a", "b">>

\* k in d, for a dict d
HasKey(d, k) == \E i \in 1..Len(d.keys) : d.keys[i] = k

\* type(v).__name__
PyType(v) ==
    CASE v.t = "null" -> "NoneType"
      [] v.t = "num" -> "int"
      [] v.t = "str" -> "str"
      [] v.t = "arr" -> "list"
      [] v.t = "obj" -> "dict"

----------------------------------------------------------------------------
(* Exceptions: a class and the text str(e) gives.                          *)

NoExc == [cls |-> "None", msg |-> ""]
Exc(cls, msg) == [cls |-> cls, msg |-> msg]

Ok(v) == [ok |-> TRUE, v |-> v, exc |-> NoExc]
Raise(cls, msg) == [ok |-> FALSE, v |-> Unset, exc |-> Exc(cls, msg)]

\* the base classes of each exception class the run can meet
Bases(cls) ==
    CASE cls = "HTTPError" -> {"URLError"}
      [] cls = "URLError" -> {"OSError"}
      [] cls = "RemoteDisconnected" -> {"ConnectionResetError", "BadStatusLine"}
      [] cls = "ConnectionResetError" -> {"ConnectionError"}
      [] cls = "ConnectionError" -> {"OSError"}
      [] cls = "OSError" -> {"Exception"}
      [] cls = "BadStatusLine" -> {"HTTPException"}
      [] cls = "IncompleteRead" -> {"HTTPException"}
      [] cls = "HTTPException" -> {"Exception"}
      [] cls = "UnicodeDecodeError" -> {"UnicodeError"}
      [] cls = "UnicodeEncodeError" -> {"UnicodeError"}
      [] cls = "UnicodeError" -> {"ValueError"}
      [] cls = "JSONDecodeError" -> {"ValueError"}
      [] cls = "ValueError" -> {"Exception"}
      [] cls = "KeyError" -> {"LookupError"}
      [] cls = "LookupError" -> {"Exception"}
      [] cls = "TypeError" -> {"Exception"}
      [] cls = "AttributeError" -> {"Exception"}
      [] cls = "Exception" -> {"BaseException"}
      [] cls = "BaseException" -> {"object"}
      [] cls = "object" -> {}

RECURSIVE IsSubclass(_, _)
IsSubclass(cls, of) ==
    \/ cls = of
    \/ \E b \in Bases(cls) : IsSubclass(b, of)

\* a narrower handler, "except ValueError as e"
CaughtValueErrorOnly(e) == IsSubclass(e.cls, "ValueError")

\* line 8: except Exception as e
Caught(e) == IsSubclass(e.cls, "Exception")

----------------------------------------------------------------------------
(* The library calls of lines 4-7 and 9.                                   *)

\* the ways urlopen fails: no connection, no DNS answer, a non-2xx status
\* (urllib's own errors), and what http.client raises unwrapped when the
\* server closes the connection or sends no status line
NetErrors ==
    { Exc("URLError", "<urlopen error [Errno 111] Connection refused>"),
      Exc("URLError", "<urlopen error [Errno -2] Name or service not known>"),
      Exc("HTTPError", "HTTP Error 404: Not Found"),
      Exc("RemoteDisconnected", "Remote end closed connection without response"),
      Exc("BadStatusLine", Garbage) }

\* the ways .read() fails once urlopen has returned: the body ends short
\* of its Content-Length, or the connection is reset
ReadErrors ==
    { Exc("IncompleteRead", "IncompleteRead(9 bytes read, 91 more expected)"),
      Exc("ConnectionResetError", "[Errno 104] Connection reset by peer") }

\* line 4: bytes.decode()
Decode(b) ==
    IF b.utf8 THEN Ok(b.text)
    ELSE Raise("UnicodeDecodeError",
               "'utf-8' codec can't decode byte 0xff in position 0: invalid start byte")

\* a lenient parser: anything unparsable reads as an empty document
JsonLoadsLenient(text) ==
    IF text.json THEN Ok(text.value) ELSE Ok(JObj(<<>>, <<>>))

\* line 5: json.loads(resp)
JsonLoads(text) ==
    IF text.json THEN Ok(text.value)
    ELSE Raise("JSONDecodeError", "Expecting value: line 1 column 1 (char 0)")

\* d[k] in place of d.get(k, default)
DictIndex(d, k, default) ==
    IF d.t # "obj"
    THEN Raise("TypeError", "'" \o PyType(d) \o "' object is not subscriptable")
    ELSE IF HasKey(d, k) THEN Ok(d.val[k])
    ELSE Raise("KeyError", "'" \o k \o "'")

\* line 6: data.get('models', [])
DictGet(d, k, default) ==
    IF d.t # "obj"
    THEN Raise("AttributeError", "'" \o PyType(d) \o "' object has no attribute 'get'")
    ELSE IF HasKey(d, k) THEN Ok(d.val[k])
    ELSE Ok(default)

Reverse(s) == [i \in 1..Len(s) |-> s[Len(s) + 1 - i]]

\* iteration from the last element to the first
IterReversed(v) ==
    IF v.t = "arr" THEN Ok(Reverse(v.items))
    ELSE Raise("TypeError", "'" \o PyType(v) \o "' object is not iterable")

\* line 6: iter() of the value the for statement is given
Iter(v) ==
    CASE v.t = "arr" -> Ok(v.items)
      [] v.t = "str" -> Ok([i \in 1..Len(Chars(v.s)) |-> JStr(Chars(v.s)[i])])
      [] v.t = "obj" -> Ok([i \in 1..Len(v.keys) |-> JStr(v.keys[i])])
      [] OTHER -> Raise("TypeError", "'" \o PyType(v) \o "' object is not iterable")

\* x.get(k) in place of x[k]: a missing key reads as None
GetItemOrNone(x, k) ==
    IF x.t = "obj" /\ ~HasKey(x, k) THEN Ok(JNull)
    ELSE IF x.t = "obj" THEN Ok(x.val[k])
    ELSE Raise("TypeError", "'" \o PyType(x) \o "' object is not subscriptable")

\* line 7: m['name']
GetItem(x, k) ==
    CASE x.t = "obj" ->
            IF HasKey(x, k) THEN Ok(x.val[k])
            ELSE Raise("KeyError", "'" \o k \o "'")
      [] x.t = "str" ->
            Raise("TypeError", "string indices must be integers, not 'str'")
      [] x.t = "arr" ->
            Raise("TypeError", "list indices must be integers or slices, not str")
      [] OTHER ->
            Raise("TypeError", "'" \o PyType(x) \o "' object is not subscriptable")

\* lines 7 and 9: str(x), the text print writes for x (scalars only: the
\* names of the model are strings, numbers and null)
PyStr(v) ==
    CASE v.t = "str" -> v.s
      [] v.t = "null" -> "None"
      [] v.t = "num" -> ToString(v.n)

\* whether stdout's encoder (UTF-8, strict) can encode the text
Encodable(text) == text # Surrogate

\* a line of stdout: the statement that printed it and its text
NameLine(text) == [by |-> "line7", text |-> text]
ErrLine(text) == [by |-> "line9", text |-> text]

\* the lines one print call writes
NamePrint(ls) == [i \in 1..Len(ls) |-> NameLine(ls[i])]
ErrPrint(ls) == [i \in 1..Len(ls) |-> ErrLine(ls[i])]

----------------------------------------------------------------------------
(* sys.stdout.  Block-buffered it is an io.TextIOWrapper, which collects   *)
(* the encoded writes up to its chunk size, over an io.BufferedWriter,     *)
(* which holds up to its buffer size, over the device.  Unbuffered         *)
(* (python -u) every write goes to the device at once.  A write keeps the  *)
(* statement that made it and its text.                                    *)

\* io.TextIOWrapper's chunk size, in bytes
ChunkSize == 8192

\* io.BufferedWriter's buffer size, in bytes (the device's block size)
BufferSize == 4096

Piece(by, text) == [by |-> by, text |-> text]

RECURSIVE SizeOf(_)
\* the bytes a sequence of writes takes
SizeOf(ws) == IF ws = <<>> THEN 0 ELSE Size(Head(ws).text) + SizeOf(Tail(ws))

RECURSIVE LinesOf(_)
\* the lines a sequence of writes shows on the device: a text opens the
\* lines it holds, a terminator ends the last of them
LinesOf(ws) ==
    IF ws = <<>> THEN <<>>
    ELSE LET w == Head(ws) IN
         (IF w.text = Newline THEN <<>>
          ELSE [i \in 1..Len(Lines(w.text)) |-> [by |-> w.by, text |-> Lines(w.text)[i]]])
         \o LinesOf(Tail(ws))

\* the state of sys.stdout and of the device behind it
Stream(p, b, o) == [pending |-> p, bbuf |-> b, out |-> o]

Wrote(s) == [ok |-> TRUE, s |-> s, exc |-> NoExc]
Failed(s) == [ok |-> FALSE, s |-> s,
              exc |-> Exc("OSError", "[Errno 28] No space left on device")]

\* io.BufferedWriter.write: what fits in the buffer stays there; otherwise
\* the buffer is written to the device, and the new bytes follow it when
\* they exceed the buffer or take its place when they do not.  A write the
\* device refuses raises, the buffer keeps what it held and the new bytes
\* are lost.
BufferedWrite(s, ws, dev) ==
    IF SizeOf(ws) <= BufferSize - SizeOf(s.bbuf)
    THEN Wrote([s EXCEPT !.bbuf = @ \o ws])
    ELSE IF dev = "full"
    THEN Failed(s)
    ELSE IF SizeOf(ws) > BufferSize
    THEN Wrote([s EXCEPT !.bbuf = <<>>, !.out = @ \o LinesOf(s.bbuf \o ws)])
    ELSE Wrote([s EXCEPT !.bbuf = ws, !.out = @ \o LinesOf(s.bbuf)])

\* io.TextIOWrapper: the pending writes are handed to the binary layer,
\* and are dropped from the text layer whether or not that write succeeds
WriteFlush(s, dev) ==
    IF s.pending = <<>> THEN Wrote(s)
    ELSE BufferedWrite([s EXCEPT !.pending = <<>>], s.pending, dev)

\* io.TextIOWrapper.write of encoded text: pending writes that the new one
\* would carry past the chunk size are handed down first (f names the
\* outcome), the new one is added, and all is handed down once a chunk is
\* full.  Unbuffered, the write goes to the device.
TextWrite(s, w, dev, buffd) ==
    IF ~buffd
    THEN IF dev = "full" THEN Failed(s)
         ELSE Wrote([s EXCEPT !.out = @ \o LinesOf(<<w>>)])
    ELSE CHOOSE r \in
           {IF ~f.ok THEN f
            ELSE IF SizeOf(f.s.pending) + Size(w.text) >= ChunkSize
            THEN WriteFlush([f.s EXCEPT !.pending = @ \o <<w>>], dev)
            ELSE Wrote([f.s EXCEPT !.pending = @ \o <<w>>]) :
            f \in {IF s.pending # <<>> /\ SizeOf(s.pending) + Size(w.text) > ChunkSize
                   THEN WriteFlush(s, dev)
                   ELSE Wrote(s)}} : TRUE

\* lines 7 and 9: print(x) writes the text of x to sys.stdout, which
\* encodes it, and then, that write done, the line terminator (a names
\* the outcome of the first write, r that of the print)
Write(text, by, s, dev, buffd) ==
    IF ~Encodable(text)
    THEN [ok |-> FALSE, s |-> s,
          exc |-> Exc("UnicodeEncodeError",
                      "'utf-8' codec can't encode character '" \o text
                          \o "' in position 0: surrogates not allowed")]
    ELSE CHOOSE r \in {IF ~a.ok THEN a
                       ELSE TextWrite(a.s, Piece(by, Newline), dev, buffd) :
                       a \in {TextWrite(s, Piece(by, text), dev, buffd)}} : TRUE

\* sys.stdout.flush(): the text layer hands down what is pending, then the
\* binary layer writes its buffer to the device; a write the device refuses
\* raises, and the buffer keeps what it held
Flush(s, dev) ==
    LET f == WriteFlush(s, dev) IN
      IF ~f.ok \/ f.s.bbuf = <<>> THEN f
      ELSE IF dev = "full" THEN Failed(f.s)
      ELSE Wrote([f.s EXCEPT !.bbuf = <<>>, !.out = @ \o LinesOf(f.s.bbuf)])

----------------------------------------------------------------------------
(* The responses the model draws the server's answer from.                 *)

\* the values a record's "name" takes: a short string, one stdout cannot
\* encode, one holding a line break, and two long ones
NameValues == {JStr("a"), JStr(Surrogate), JStr(TwoLines), JStr(X4093), JStr(X9000)}

Named(v) == JObj(<<"name">>, [name |-> v])
Unnamed == JObj(<<"notname">>, [notname |-> JStr("b")])

\* the elements of a "models" sequence: records with a name, a record
\* without one, and a value that is no record
Elements == {Named(v) : v \in NameValues} \cup {Unnamed, JStr("s")}

SeqsUpTo(S, n) == UNION {[1..k -> S] : k \in 0..n}

Listing(l) == JObj(<<"models">>, [models |-> JArr(l)])
EmptyDoc == JObj(<<>>, <<>>)
OtherDoc == JObj(<<"other">>, [other |-> JNum(1)])

\* the documents: a mapping with a "models" sequence, a mapping without
\* "models", a mapping whose "models" is no sequence, and no mapping at all
Documents ==
    {Listing(l) : l \in SeqsUpTo(Elements, MaxModels)}
    \cup {EmptyDoc, OtherDoc}
    \cup {JObj(<<"models">>, [models |-> v]) :
            v \in {JNull, JNum(1), JStr(""), JStr("ab"), EmptyDoc, Named(JStr("a"))}}
    \cup {JArr(<<>>), JNull, JStr("s"), JNum(1)}

JsonText(doc) == [json |-> TRUE, value |-> doc]
NotJson == [json |-> FALSE, value |-> Unset]
Utf8(text) == [utf8 |-> TRUE, text |-> text]
NotUtf8 == [utf8 |-> FALSE, text |-> NotJson]

\* the response bodies: bytes that are no UTF-8, text that is no JSON
\* ("not json"), and the JSON text of each document
Bodies == {NotUtf8, Utf8(NotJson)} \cup {Utf8(JsonText(d)) : d \in Documents}

----------------------------------------------------------------------------
(* The run.                                                                *)

\* line 3: the endpoint and the (empty) key
Endpoint == "https://generativelanguage.googleapis.com/v1beta/models?key="
Key == ""

Init ==
    /\ body \in Bodies
    /\ device \in {"ok", "full"}
    /\ buffered \in BOOLEAN
    /\ pc = "line3"
    /\ url = ""
    /\ requests = 0
    /\ netOutcome = "pending"
    /\ resp = Unset
    /\ data = Unset
    /\ iter = <<>>
    /\ idx = 0
    /\ m = Unset
    /\ exc = NoExc
    /\ pending = <<>>
    /\ bbuf = <<>>
    /\ out = <<>>
    /\ printed7 = 0
    /\ printed9 = 0
    /\ exitCode = -1

\* an exception raised inside the try block: the handler of line 8 takes it
\* if its clause matches, otherwise it leaves the script
Throw(e) ==
    /\ exc' = e
    /\ pc' = IF Caught(e) THEN "line9" ELSE "crash"

\* the interpreter shuts down with the given status: sys.stdout is flushed
\* twice, first after the script has run, any error dropped, then in
\* finalization, where a flush that fails makes the status 120
Terminate(code) ==
    \E first \in {Flush(Stream(pending, bbuf, out), device)} :
      \E last \in {Flush(first.s, device)} :
        /\ pc' = "done"
        /\ pending' = last.s.pending
        /\ bbuf' = last.s.bbuf
        /\ out' = last.s.out
        /\ exitCode' = IF last.ok THEN code ELSE 120

\* line 3: url = "...models?key="
BuildUrl ==
    /\ pc = "line3"
    /\ url' = Endpoint \o Key
    /\ pc' = "line4"
    /\ UNCHANGED <<body, device, buffered, requests, netOutcome, resp, data,
                   iter, idx, m, exc, pending, bbuf, out, printed7, printed9, exitCode>>

\* line 4: urllib.request.urlopen(url) sends the GET and blocks
UrlOpen ==
    /\ pc = "line4"
    /\ requests' = requests + 1
    /\ pc' = "wait"
    /\ UNCHANGED <<body, device, buffered, url, netOutcome, resp, data, iter,
                   idx, m, exc, pending, bbuf, out, printed7, printed9, exitCode>>

\* line 4: urlopen raises
NetFail ==
    /\ pc = "wait"
    /\ \E e \in NetErrors :
         /\ netOutcome' = "fail"
         /\ Throw(e)
    /\ UNCHANGED <<body, device, buffered, url, requests, resp, data, iter,
                   idx, m, pending, bbuf, out, printed7, printed9, exitCode>>

\* line 4: the status line and the headers arrive, urlopen returns the
\* response, and .read() blocks
UrlOpenReturns ==
    /\ pc = "wait"
    /\ pc' = "read"
    /\ UNCHANGED <<body, device, buffered, url, requests, netOutcome, resp,
                   data, iter, idx, m, exc, pending, bbuf, out, printed7, printed9,
                   exitCode>>

\* line 4: .read() raises
ReadFail ==
    /\ pc = "read"
    /\ \E e \in ReadErrors :
         /\ netOutcome' = "fail"
         /\ Throw(e)
    /\ UNCHANGED <<body, device, buffered, url, requests, resp, data, iter,
                   idx, m, pending, bbuf, out, printed7, printed9, exitCode>>

\* line 4: .read() returns the whole body and .decode() makes it text
NetRespond ==
    /\ pc = "read"
    /\ netOutcome' = "ok"
    /\ LET r == Decode(body) IN
         IF r.ok
         THEN /\ resp' = r.v
              /\ pc' = "line5"
              /\ UNCHANGED exc
         ELSE /\ Throw(r.exc)
              /\ UNCHANGED resp
    /\ UNCHANGED <<body, device, buffered, url, requests, data, iter, idx, m,
                   pending, bbuf, out, printed7, printed9, exitCode>>

\* line 5: data = json.loads(resp)
Loads ==
    /\ pc = "line5"
    /\ LET r == JsonLoads(resp) IN
         IF r.ok
         THEN /\ data' = r.v
              /\ pc' = "line6"
              /\ UNCHANGED exc
         ELSE /\ Throw(r.exc)
              /\ UNCHANGED data
    /\ UNCHANGED <<body, device, buffered, url, requests, netOutcome, resp,
                   iter, idx, m, pending, bbuf, out, printed7, printed9, exitCode>>

\* line 6: the for statement evaluates data.get('models', []) and takes its
\* iterator
GetModels ==
    /\ pc = "line6"
    /\ LET g == DictGet(data, "models", JArr(<<>>))
           r == IF g.ok THEN Iter(g.v) ELSE g
       IN
         IF r.ok
         THEN /\ iter' = r.v
              /\ pc' = "for"
              /\ UNCHANGED exc
         ELSE /\ Throw(r.exc)
              /\ UNCHANGED iter
    /\ UNCHANGED <<body, device, buffered, url, requests, netOutcome, resp,
                   data, idx, m, pending, bbuf, out, printed7, printed9, exitCode>>

\* a for statement that does not move on
Stay(i) == i

\* line 6: the iterator's position after it has handed out an element
Advance(i) == i + 1

\* line 6: the for statement binds m to the next element
ForNext ==
    /\ pc = "for"
    /\ idx < Len(iter)
    /\ m' = iter[idx + 1]
    /\ idx' = Advance(idx)
    /\ pc' = "line7"
    /\ UNCHANGED <<body, device, buffered, url, requests, netOutcome, resp,
                   data, iter, exc, pending, bbuf, out, printed7, printed9, exitCode>>

\* line 6: the iterator is exhausted; the try block ends and line 9 is
\* skipped
ForEnd ==
    /\ pc = "for"
    /\ idx >= Len(iter)
    /\ pc' = "exit"
    /\ UNCHANGED <<body, device, buffered, url, requests, netOutcome, resp,
                   data, iter, idx, m, exc, pending, bbuf, out, printed7, printed9,
                   exitCode>>

\* line 7: print(m['name'])
PrintName ==
    /\ pc = "line7"
    /\ LET g == GetItem(m, "name") IN
         IF ~g.ok
         THEN /\ Throw(g.exc)
              /\ UNCHANGED <<pending, bbuf, out, printed7>>
         ELSE \E w \in {Write(PyStr(g.v), "line7", Stream(pending, bbuf, out),
                                device, buffered)} :
                 /\ printed7' = printed7 + 1
                 /\ pending' = w.s.pending
                 /\ bbuf' = w.s.bbuf
                 /\ out' = w.s.out
                 /\ IF w.ok
                    THEN pc' = "for" /\ UNCHANGED exc
                    ELSE Throw(w.exc)
    /\ UNCHANGED <<body, device, buffered, url, requests, netOutcome, resp,
                   data, iter, idx, m, printed9, exitCode>>

\* a handler that swallows the exception: "except Exception: pass"
HandlerSilent(e, s, dev, buffd) == Wrote(s)

\* line 9: print(e)
HandlerPrint(e, s, dev, buffd) == Write(e.msg, "line9", s, dev, buffd)

\* a handler that starts the request again
AfterExceptRetry == "line4"

\* a handler after which the loop goes on
AfterExceptResume == "for"

\* where the run continues after line 9: the end of the script
AfterExcept == "exit"

\* lines 8-9: except Exception as e: print(e); an exception print raises
\* here leaves the script
Handler ==
    /\ pc = "line9"
    /\ printed9' = printed9 + 1
    /\ \E w \in {HandlerPrint(exc, Stream(pending, bbuf, out), device, buffered)} :
         /\ pending' = w.s.pending
         /\ bbuf' = w.s.bbuf
         /\ out' = w.s.out
         /\ IF w.ok
            THEN pc' = AfterExcept /\ UNCHANGED exc
            ELSE exc' = w.exc /\ pc' = "crash"
    /\ UNCHANGED <<body, device, buffered, url, requests, netOutcome, resp,
                   data, iter, idx, m, printed7, exitCode>>

\* the end of the script: the interpreter exits with status 0
Exit ==
    /\ pc = "exit"
    /\ Terminate(0)
    /\ UNCHANGED <<body, device, buffered, url, requests, netOutcome, resp,
                   data, iter, idx, m, exc, printed7, printed9>>

\* an exception left the script: the interpreter prints the traceback on
\* stderr and exits with status 1
Crash ==
    /\ pc = "crash"
    /\ Terminate(1)
    /\ UNCHANGED <<body, device, buffered, url, requests, netOutcome, resp,
                   data, iter, idx, m, exc, printed7, printed9>>

\* the steps the interpreter takes by itself
ProgramStep ==
    \/ BuildUrl
    \/ UrlOpen
    \/ Loads
    \/ GetModels
    \/ ForNext
    \/ ForEnd
    \/ PrintName
    \/ Handler
    \/ Exit
    \/ Crash

\* the steps that wait for the network
NetworkStep ==
    \/ NetFail
    \/ UrlOpenReturns
    \/ ReadFail
    \/ NetRespond

Next == ProgramStep \/ NetworkStep

Spec == Init /\ [][Next]_vars

\* The interpreter always takes its next step; nothing makes the network
\* answer (no timeout is set on the call).
FairSpec == Spec /\ WF_vars(ProgramStep)

----------------------------------------------------------------------------
(* What a response is, read off the body alone.                            *)

\* the body is text that parses as JSON
IsJsonBody(b) == b.utf8 /\ b.text.json
DocOf(b) == b.text.value

\* the body is a JSON mapping
IsMappingBody(b) == IsJsonBody(b) /\ DocOf(b).t = "obj"

\* the body is a JSON mapping whose "models" value is a sequence
IsListingBody(b) ==
    /\ IsMappingBody(b)
    /\ HasKey(DocOf(b), "models")
    /\ DocOf(b).val["models"].t = "arr"
ModelsOf(b) == DocOf(b).val["models"].items

\* the number of elements of the response's "models" sequence
ModelCount(b) == IF IsListingBody(b) THEN Len(ModelsOf(b)) ELSE 0

\* the body is a JSON mapping with no "models" key
NoModelsKey(b) == IsMappingBody(b) /\ ~HasKey(DocOf(b), "models")

\* the body is a JSON mapping whose "models" value is the empty sequence
EmptyModels(b) == IsListingBody(b) /\ Len(ModelsOf(b)) = 0

\* the element is a record with a "name" field
HasName(e) == e.t = "obj" /\ HasKey(e, "name")
\* the element is a record without a "name" field
LacksName(e) == e.t = "obj" /\ ~HasKey(e, "name")
\* the text of the element's name
NameText(e) == PyStr(e.val["name"])

\* the first n elements of the sequence are records with a name
NamedUpTo(l, n) == \A i \in 1..n : HasName(l[i])
\* ... stdout can encode each of those names
PrintableUpTo(l, n) == \A i \in 1..n : Encodable(NameText(l[i]))
\* ... and none of them holds a line break
OneLineEachUpTo(l, n) == \A i \in 1..n : Len(Lines(NameText(l[i]))) = 1
\* one line for the name of each of the first n elements, in order
NameLines(l, n) == [i \in 1..n |-> NameLine(NameText(l[i]))]

\* what printing the names of the first n elements puts on stdout, a name
\* that holds a line break taking two lines
RECURSIVE NamesOutput(_, _)
NamesOutput(l, n) ==
    IF n = 0 THEN <<>>
    ELSE NamesOutput(l, n - 1) \o NamePrint(Lines(NameText(l[n])))

\* what printing the exception's description puts on stdout
ErrOutput(e) == ErrPrint(Lines(e.msg))

Done == pc = "done"
Answered == netOutcome = "ok"
\* the device behind stdout takes what is written
StdoutOk == device = "ok"
IsNameLine(x) == x.by = "line7"
IsErrLine(x) == x.by = "line9"
NameCount == Cardinality({i \in 1..Len(out) : IsNameLine(out[i])})
ErrCount == Cardinality({i \in 1..Len(out) : IsErrLine(out[i])})

\* the k-th element is the first record without a name, after k-1 records
\* that have one
FirstUnnamedAt(l, k) ==
    /\ k \in 1..Len(l)
    /\ LacksName(l[k])
    /\ NamedUpTo(l, k - 1)

----------------------------------------------------------------------------
(* C1 *)

\* C1, as stated: for every answered response that is a mapping whose
\* "models" is a sequence of records that all have a "name", the finished
\* run's stdout is exactly those names, one line each, in the records'
\* order, with no error line.
C1_AllNamesPrinted ==
    (Done /\ Answered /\ IsListingBody(body)
          /\ NamedUpTo(ModelsOf(body), Len(ModelsOf(body))))
    => /\ out = NameLines(ModelsOf(body), Len(ModelsOf(body)))
       /\ exc = NoExc

\* C1, amended: the same, when stdout takes the writes and for the
\* responses whose names stdout can encode and hold no line break (print
\* raises on a name it cannot encode, such as a lone surrogate, and a name
\* with a line break takes two lines).
C1_PrintableNamesPrinted ==
    (Done /\ Answered /\ StdoutOk /\ IsListingBody(body)
          /\ NamedUpTo(ModelsOf(body), Len(ModelsOf(body)))
          /\ PrintableUpTo(ModelsOf(body), Len(ModelsOf(body)))
          /\ OneLineEachUpTo(ModelsOf(body), Len(ModelsOf(body))))
    => /\ out = NameLines(ModelsOf(body), Len(ModelsOf(body)))
       /\ exc = NoExc
       /\ exitCode = 0

\* a finished run that printed two different names, in the records' order
C1_Witness ==
    /\ Done /\ Answered /\ StdoutOk /\ IsListingBody(body)
    /\ Len(ModelsOf(body)) = 2
    /\ NamedUpTo(ModelsOf(body), 2)
    /\ out = <<NameLine("a"), NameLine(X4093)>>

----------------------------------------------------------------------------
(* C2 *)

\* C2, as stated: when element k is the first record that lacks "name",
\* the finished run's stdout is the names of the k-1 records before it, in
\* order, then one line with the lookup error's text; nothing of the later
\* elements is printed.
C2_StopsAtFirstUnnamed ==
    (Done /\ Answered /\ IsListingBody(body))
    => \A k \in 1..Len(ModelsOf(body)) :
         FirstUnnamedAt(ModelsOf(body), k)
         => /\ out = NamesOutput(ModelsOf(body), k - 1) \o <<ErrLine("'name'")>>
            /\ exc.cls = "KeyError"
            /\ idx = k

\* C2, amended: the same, when stdout takes the writes and can encode the
\* k-1 names before the failing record.
C2_StopsAtFirstUnnamedPrintable ==
    (Done /\ Answered /\ StdoutOk /\ IsListingBody(body))
    => \A k \in 1..Len(ModelsOf(body)) :
         (FirstUnnamedAt(ModelsOf(body), k) /\ PrintableUpTo(ModelsOf(body), k - 1))
         => /\ out = NamesOutput(ModelsOf(body), k - 1) \o <<ErrLine("'name'")>>
            /\ exc.cls = "KeyError"
            /\ idx = k
            /\ printed7 = k - 1

\* a finished run over [named, unnamed, named]: one name, the lookup error,
\* and the third record never taken
C2_Witness ==
    /\ Done /\ Answered /\ StdoutOk /\ IsListingBody(body)
    /\ Len(ModelsOf(body)) = 3
    /\ FirstUnnamedAt(ModelsOf(body), 2)
    /\ HasName(ModelsOf(body)[3])
    /\ out = <<NameLine("a"), ErrLine("'name'")>>
    /\ idx = 2

----------------------------------------------------------------------------
(* C3 *)

\* C3, as stated: a finished run in which a step failed has printed one
\* line, the error's text, and nothing else; a run without a failure has
\* printed names only.
C3_FailureIsSoleLine ==
    Done => IF exc # NoExc
            THEN out = <<ErrLine(exc.msg)>>
            ELSE \A i \in 1..Len(out) : IsNameLine(out[i])

\* the failures of the steps before the iteration
BeforeIteration ==
    {"URLError", "HTTPError", "RemoteDisconnected", "BadStatusLine",
     "IncompleteRead", "ConnectionResetError", "UnicodeDecodeError",
     "JSONDecodeError", "AttributeError"}

\* C3, amended: when stdout takes the writes, a finished run in which a
\* step failed has printed the names of the elements before the failing one
\* and then the error's text, once (one line unless the text holds a line
\* break); that text is the whole output when the failure is in the
\* network, decode or parse step or in the lookup of "models".  A run
\* without a failure has printed the names only.
C3_FailureIsLastPrint ==
    (Done /\ StdoutOk)
    => IF exc # NoExc
       THEN /\ out = NamesOutput(iter, IF idx = 0 THEN 0 ELSE idx - 1)
                       \o ErrOutput(exc)
            /\ printed9 = 1
            /\ exc.cls \in BeforeIteration => out = ErrOutput(exc)
            /\ Len(Lines(exc.msg)) = 1 => ErrCount = 1
       ELSE /\ out = NamesOutput(iter, Len(iter))
            /\ printed9 = 0

\* a finished run that printed a name and then failed on an element that is
\* no record
C3_Witness ==
    /\ Done /\ StdoutOk
    /\ exc.cls = "TypeError"
    /\ Len(out) = 2
    /\ IsNameLine(out[1])
    /\ out[2] = ErrLine(exc.msg)

----------------------------------------------------------------------------
(* C4 *)

\* C4: an answered mapping without "models" and one whose "models" is the
\* empty sequence run alike: the for statement iterates the empty sequence,
\* nothing is printed, no exception is raised and the handler is not
\* entered, and the run ends with status 0.
C4_AbsentIsEmpty ==
    (Answered /\ (NoModelsKey(body) \/ EmptyModels(body)))
    => /\ out = <<>> /\ pending = <<>> /\ bbuf = <<>>
       /\ printed7 = 0 /\ printed9 = 0
       /\ exc = NoExc
       /\ pc \in {"line5", "line6", "for", "exit", "done"}
       /\ iter = <<>>
       /\ idx = 0
       /\ Done => exitCode = 0

\* a finished run over a mapping that has another key but no "models"
C4_Witness ==
    /\ Done /\ Answered
    /\ NoModelsKey(body)
    /\ HasKey(DocOf(body), "other")
    /\ out = <<>>
    /\ exitCode = 0

----------------------------------------------------------------------------
(* C5 *)

\* what no run does once the network call has failed: bind resp, parse,
\* iterate, print a name
NeverPastLine4 ==
    /\ pc \in {"line9", "exit", "crash", "done"}
    /\ resp = Unset /\ data = Unset /\ m = Unset /\ idx = 0 /\ iter = <<>>
    /\ printed7 = 0
    /\ NameCount = 0

----------------------------------------------------------------------------
(* C6 *)

\* what no run does once the parse has failed: bind data, iterate, print a
\* name
NeverPastLine5 ==
    /\ pc \in {"line5", "line9", "exit", "crash", "done"}
    /\ data = Unset /\ m = Unset /\ idx = 0 /\ iter = <<>>
    /\ printed7 = 0
    /\ NameCount = 0

ParseErrorText == "Expecting value: line 1 column 1 (char 0)"

----------------------------------------------------------------------------
(* C7 *)

\* the four kinds of failure: network, decode, parse, lookup
FourKinds ==
    {"URLError", "HTTPError", "RemoteDisconnected", "BadStatusLine",
     "IncompleteRead", "ConnectionResetError", "UnicodeDecodeError",
     "JSONDecodeError", "KeyError"}

\* the finished run's stdout ends with the description of the exception
EndsWithErr ==
    /\ Len(out) >= Len(ErrOutput(exc))
    /\ SubSeq(out, Len(out) - Len(ErrOutput(exc)) + 1, Len(out)) = ErrOutput(exc)

\* C7, as stated: a failure of any of the four kinds is taken by the
\* handler, which prints its text, and every run that ends, failed or not,
\* ends with status 0.
C7_CaughtAndExitZero ==
    /\ Done => exitCode = 0
    /\ exc.cls \in FourKinds
         => /\ pc \in {"line9", "exit", "done"}
            /\ Done => EndsWithErr

\* C7, amended: a failure of any of the four kinds is taken by the handler;
\* when stdout takes the writes the handler prints its text and every run
\* that ends, failed or not, ends with status 0.  When stdout does not take
\* them nothing reaches it, and a run ends with status 0 if it printed
\* nothing, with status 1 if print(e) raised out of the handler (unbuffered,
\* every run that printed), with status 120 if the flush of finalization
\* failed on what the buffer still held, and with status 0 if the buffered
\* output was dropped before.
C7_CaughtAndExitZeroWhenWritable ==
    /\ exc.cls \in FourKinds => pc \in {"line9", "exit", "done"}
    /\ (Done /\ StdoutOk)
         => /\ exitCode = 0
            /\ exc.cls \in FourKinds => EndsWithErr
    /\ (Done /\ ~StdoutOk)
         => /\ out = <<>>
            /\ pending = <<>>
            /\ exitCode \in {0, 1, 120}
            /\ printed7 + printed9 = 0 => exitCode = 0
            /\ exitCode = 1 => (exc.cls = "OSError" /\ printed9 = 1)
            /\ (~buffered /\ printed7 + printed9 > 0) => exitCode = 1
            /\ buffered => (exitCode = 120 <=> bbuf # <<>>)

\* a run that failed with a lookup error and ended with status 0
C7_Witness ==
    /\ Done /\ StdoutOk
    /\ exc.cls = "KeyError"
    /\ exitCode = 0
    /\ out[Len(out)] = ErrLine("'name'")

----------------------------------------------------------------------------
(* C8 *)

----------------------------------------------------------------------------
(* C9 *)

----------------------------------------------------------------------------
(* C10 *)

\* C10, as stated: in every state stdout holds at most one error line,
\* nothing follows it, and the lines before it are the names of the first
\* records of the response's "models", one line each, in order, without
\* repeats or gaps.
C10_OutputShape ==
    /\ ErrCount <= 1
    /\ \A i \in 1..Len(out) : IsErrLine(out[i]) => i = Len(out)
    /\ NameCount <= ModelCount(body)
    /\ \A i \in 1..NameCount :
         /\ HasName(ModelsOf(body)[i])
         /\ out[i] = NameLine(NameText(ModelsOf(body)[i]))

\* C10, amended: in every state stdout holds at most one error description,
\* nothing follows it, and what comes before it is the names of the first
\* records of the response's "models", in order, without repeats or gaps;
\* a name or a description is one line unless its text holds a line break.
C10_OutputShapeByPrint ==
    \E j \in 0..ModelCount(body) :
       /\ NamedUpTo(ModelsOf(body), j)
       /\ \/ out = NamesOutput(ModelsOf(body), j)
          \/ /\ printed9 = 1
             /\ out = NamesOutput(ModelsOf(body), j) \o ErrOutput(exc)

\* a finished run that printed two names and then failed to encode the
\* third
C10_Witness ==
    /\ Done
    /\ exc.cls = "UnicodeEncodeError"
    /\ Len(out) = 3
    /\ IsErrLine(out[3])
    /\ out[1] # out[2]

====
